---- MODULE Spec2Model ----
(***************************************************************************)
(* Building / parking-lot synthesis (map_model/src/make/buildings.rs) and  *)
(* the Warn<T> diagnostic wrapper (abstutil/src/logs.rs).                  *)
(*                                                                         *)
(* Distances are whole metres, points are pairs <<x, y>> on the metre grid.*)
(* Option<T> is a sequence: None is << >>, Some(v) is <<v>>.               *)
(***************************************************************************)
EXTENDS Integers, Sequences, FiniteSets, TLC

VARIABLES
    \* ---- make_all_buildings / make_all_parking_lots
    fn,            \* which batch function runs: "buildings" or "lots"
    input,         \* the raw footprints, in traversal order
    resolver,      \* what find_sidewalk_points answers for each centre
    pc,            \* position in the batch function
    center_per,    \* center_per_bldg / center_per_lot
    sidewalk_pts,  \* the resolver's result for this batch's query
    i,             \* number of per-item iterations finished
    results,       \* the output Vec
    timer,         \* the Timer sink: [warns, notes, stack]
    run,           \* 1 for the first batch run, 2 for the re-run
    prev,          \* what the first run produced, kept for the re-run
    change,        \* how the re-run's input differs from the first run's
    \* ---- trim_path
    t_poly, t_path, t_ret,
    \* ---- get_address
    a_tags, a_lane, a_ret,
    \* ---- Warn<T>
    w,             \* the live Warn value, if any
    w_op,          \* the last operation applied: [name, arg]
    w_self,        \* the Warn that operation consumed
    w_ret,         \* the value an extraction returned
    stdout         \* the lines println! wrote

batch_vars == <<fn, input, resolver, pc, center_per, sidewalk_pts, i, results, timer,
                run, prev, change>>
trim_vars  == <<t_poly, t_path, t_ret>>
addr_vars  == <<a_tags, a_lane, a_ret>>
warn_vars  == <<w, w_op, w_self, w_ret, stdout>>
vars       == <<batch_vars, trim_vars, addr_vars, warn_vars>>
not_batch  == <<trim_vars, addr_vars, warn_vars>>

None == << >>
Some(v) == <<v>>

-----------------------------------------------------------------------------
(* Bounds of the model *)

MaxInput == 2     \* footprints in one batch
MaxCoord == 5     \* the grid the trim_path inputs are drawn from: 0..MaxCoord
MaxWarnings == 2  \* warnings held by one Warn value

-----------------------------------------------------------------------------
(* geom: Pt2D, Line, Polygon                                               *)

Pt(x, y) == <<x, y>>

\* Line::maybe_new: None when the two points coincide
Line_maybe_new(p1, p2) == IF p1 = p2 THEN None ELSE Some([pt1 |-> p1, pt2 |-> p2])

\* Line::new: the caller guarantees pt1 # pt2
Line_new(p1, p2) == [pt1 |-> p1, pt2 |-> p2]

\* squared length of a line; zero exactly when the endpoints coincide
Line_length_sq(l) ==
    (l.pt2[1] - l.pt1[1]) * (l.pt2[1] - l.pt1[1])
    + (l.pt2[2] - l.pt1[2]) * (l.pt2[2] - l.pt1[2])

is_counter_clockwise(p1, p2, p3) ==
    (p3[2] - p1[2]) * (p2[1] - p1[1]) > (p2[2] - p1[2]) * (p3[1] - p1[1])

\* integer division rounding toward zero, for either sign of the operands
DivT(a, b) ==
    LET aa == IF a < 0 THEN -a ELSE a
        bb == IF b < 0 THEN -b ELSE b
        q  == aa \div bb
    IN IF (a < 0) = (b < 0) THEN q ELSE -q

\* Line::intersection: the segments' crossing point, on the grid
Line_intersection(l1, l2) ==
    IF \/ is_counter_clockwise(l1.pt1, l2.pt1, l2.pt2)
          = is_counter_clockwise(l1.pt2, l2.pt1, l2.pt2)
       \/ is_counter_clockwise(l1.pt1, l1.pt2, l2.pt1)
          = is_counter_clockwise(l1.pt1, l1.pt2, l2.pt2)
    THEN None
    ELSE LET rx == l1.pt2[1] - l1.pt1[1]
             ry == l1.pt2[2] - l1.pt1[2]
             sx == l2.pt2[1] - l2.pt1[1]
             sy == l2.pt2[2] - l2.pt1[2]
             d  == rx * sy - ry * sx
             tn == (l2.pt1[1] - l1.pt1[1]) * sy - (l2.pt1[2] - l1.pt1[2]) * sx
         IN IF d = 0 THEN None
            ELSE Some(Pt(l1.pt1[1] + DivT(tn * rx, d), l1.pt1[2] + DivT(tn * ry, d)))

\* Polygon::center: the mean of the ring's vertices (the closing point left out)
Polygon_center(poly) ==
    LET n == Len(poly) - 1
        SumC[k \in 0..n, c \in 1..2] ==
            IF k = 0 THEN 0 ELSE SumC[k - 1, c] + poly[k][c]
    IN Pt(DivT(SumC[n, 1], n), DivT(SumC[n, 2], n))

-----------------------------------------------------------------------------
(* trim_path *)

RECURSIVE trim_from(_, _, _)

\* trim_from with the first intersecting edge taken whatever its hit: when the
\* hit is path.pt2 itself no line can be built and the path is returned
trim_from_first(poly, path, k) ==
    IF k + 1 > Len(poly) THEN path
    ELSE LET l   == Line_new(poly[k], poly[k + 1])
             hit == Line_intersection(l, path)
         IN IF hit # None
            THEN (IF Line_maybe_new(hit[1], path.pt2) # None
                  THEN Line_maybe_new(hit[1], path.pt2)[1] ELSE path)
            ELSE trim_from(poly, path, k + 1)

\* trim_from building the line with Line::new semantics left unchecked
trim_from_unchecked(poly, path, k) ==
    IF k + 1 > Len(poly) THEN path
    ELSE LET l   == Line_new(poly[k], poly[k + 1])
             hit == Line_intersection(l, path)
         IN IF hit # None THEN Line_new(hit[1], path.pt2)
            ELSE trim_from(poly, path, k + 1)

\* the loop of trim_path from window k on: windows(2) of poly.points()
trim_from(poly, path, k) ==
    IF k + 1 > Len(poly) THEN path    \* "Just give up"
    ELSE LET l   == Line_new(poly[k], poly[k + 1])
             hit == Line_intersection(l, path)
         IN IF hit # None /\ Line_maybe_new(hit[1], path.pt2) # None
            THEN Line_maybe_new(hit[1], path.pt2)[1]
            ELSE trim_from(poly, path, k + 1)

trim_path(poly, path) == trim_from(poly, path, 1)

-----------------------------------------------------------------------------
(* The network snapshot (crate::Map): three roads on the metre grid.       *)
(* Lanes 1..5; a lane runs from `start` in direction `dir` for `length`.   *)

Map ==
    [ lanes |->
        <<  \* 1: sidewalk of Main St, y = 6, x from -8 to 12
            [lane_type |-> "Sidewalk", parent |-> 1, length |-> 20, fwd |-> TRUE,
             start |-> <<-8, 6>>, dir |-> <<1, 0>>],
            \* 2: driving lane of Main St, y = 7
            [lane_type |-> "Driving", parent |-> 1, length |-> 20, fwd |-> TRUE,
             start |-> <<-8, 7>>, dir |-> <<1, 0>>],
            \* 3: sidewalk of the alley, x = 4, y from -6 to 10; no driving lane
            [lane_type |-> "Sidewalk", parent |-> 2, length |-> 16, fwd |-> TRUE,
             start |-> <<4, -6>>, dir |-> <<0, 1>>],
            \* 4: sidewalk of Back Rd, y = 2, x from -6 to 10
            [lane_type |-> "Sidewalk", parent |-> 3, length |-> 16, fwd |-> TRUE,
             start |-> <<-6, 2>>, dir |-> <<1, 0>>],
            \* 5: driving lane of Back Rd, the other way: y = 1, x from 10 to -6
            [lane_type |-> "Driving", parent |-> 3, length |-> 16, fwd |-> FALSE,
             start |-> <<10, 1>>, dir |-> <<-1, 0>>] >>,
      roads |->
        << [name |-> "Main St", children |-> <<2, 1>>],
           [name |-> "",        children |-> <<3>>],
           [name |-> "Back Rd", children |-> <<5, 4>>] >> ]

\* Map::get_l, Map::get_parent
get_l(map, l) == map.lanes[l]
get_parent(map, l) == map.roads[map.lanes[l].parent]

\* Position::pt: the point at dist_along on the position's lane
Position_pt(pos, map) ==
    LET l == get_l(map, pos.lane)
    IN Pt(l.start[1] + pos.dist_along * l.dir[1], l.start[2] + pos.dist_along * l.dir[2])

Abs(n) == IF n < 0 THEN -n ELSE n
Min(a, b) == IF a < b THEN a ELSE b
Max(a, b) == IF a < b THEN b ELSE a

\* Road::find_closest_lane: Ok(lane) is <<lane>>, Err is << >>
find_closest_lane(road, from, types, map) ==
    LET idx(l) == CHOOSE k \in 1..Len(road.children) : road.children[k] = l
        cands == {l \in {road.children[k] : k \in 1..Len(road.children)} :
                    l # from /\ map.lanes[l].lane_type \in types}
    IN IF cands = {} THEN None
       ELSE Some(CHOOSE l \in cands :
                    \A m \in cands : Abs(idx(l) - idx(from)) <= Abs(idx(m) - idx(from)))

\* Position::equiv_pos: the same spot on another lane of the same road
equiv_pos(pos, lane, our_len, map) ==
    LET len == get_l(map, lane).length
    IN IF get_l(map, lane).fwd = get_l(map, pos.lane).fwd
       THEN [lane |-> lane, dist_along |-> Min(pos.dist_along, len)]
       ELSE [lane |-> lane, dist_along |-> Min(Max(len - pos.dist_along, our_len), len)]

\* what the resolver may answer for a centre: a position on a sidewalk lane
Positions ==
    { [lane |-> 1, dist_along |-> 10],   \* (2, 6)
      [lane |-> 1, dist_along |-> 7],    \* (-1, 6)
      [lane |-> 1, dist_along |-> 12],   \* (4, 6)
      [lane |-> 1, dist_along |-> 13],   \* (5, 6)
      [lane |-> 3, dist_along |-> 8],    \* (4, 2)
      [lane |-> 4, dist_along |-> 8],    \* (2, 2)
      [lane |-> 4, dist_along |-> 9] }   \* (3, 2)

-----------------------------------------------------------------------------
(* The raw footprints *)

SquareA == <<Pt(0, 0), Pt(4, 0), Pt(4, 4), Pt(0, 4), Pt(0, 0)>>   \* centre (2, 2)
RectB   == <<Pt(1, 1), Pt(5, 1), Pt(5, 3), Pt(1, 3), Pt(1, 1)>>   \* centre (3, 2)
Polygons == {SquareA, RectB}
Centers == {Polygon_center(p) : p \in Polygons}

\* RawBuilding
RawBuildings ==
    { [polygon |-> SquareA, num_parking_spots |-> 2, public_garage_name |-> None,
       amenities |-> {"cafe"},
       osm_tags |-> [k \in {"addr:housenumber", "addr:street", "name"} |->
                        CASE k = "addr:housenumber" -> "10"
                          [] k = "addr:street" -> "Main St"
                          [] OTHER -> "Depot"]],
      [polygon |-> SquareA, num_parking_spots |-> 0, public_garage_name |-> None,
       amenities |-> {},
       osm_tags |-> [k \in {} |-> ""]],
      [polygon |-> RectB, num_parking_spots |-> 1, public_garage_name |-> Some("P1"),
       amenities |-> {},
       osm_tags |-> [k \in {"addr:street"} |-> "Main St"]] }

\* RawParkingLot; area is Polygon::area() in square metres
RawParkingLots ==
    { [polygon |-> SquareA, osm_id |-> 10, capacity |-> Some(5), area |-> 16],
      [polygon |-> SquareA, osm_id |-> 11, capacity |-> None, area |-> 46],
      [polygon |-> RectB,   osm_id |-> 12, capacity |-> None, area |-> 8] }

\* OriginalBuilding keys of the BTreeMap (even, so that a key fits between any two)
BuildingKeys == {2 * k : k \in 1..MaxInput}

\* BTreeMap<OriginalBuilding, RawBuilding> in key order: each entry is [id, raw]
RECURSIVE BuildingInputs(_)
BuildingInputs(keys) ==
    IF keys = {} THEN {<< >>}
    ELSE LET k == CHOOSE m \in keys : \A n \in keys : n <= m
             rest == BuildingInputs(keys \ {k})
         IN rest \cup {Append(s, [id |-> k, raw |-> b]) :
                          s \in rest, b \in RawBuildings}

\* Vec<RawParkingLot>: each entry is [id, raw], id being the lot's osm_id
RECURSIVE LotInputs(_)
LotInputs(n) ==
    IF n = 0 THEN {<< >>}
    ELSE LET rest == LotInputs(n - 1)
         IN rest \cup {Append(s, [id |-> l.osm_id, raw |-> l]) :
                          s \in {r \in rest : Len(r) = n - 1}, l \in RawParkingLots}

-----------------------------------------------------------------------------
(* Timer: the diagnostics sink. A message is the format string of the      *)
(* format!() call with its arguments rendered.                             *)

Msg(fmt, args) == [fmt |-> fmt, args |-> args]

Timer_start(t, name) == [t EXCEPT !.stack = Append(@, name)]
Timer_stop(t, name)  == [t EXCEPT !.stack = SubSeq(@, 1, Len(@) - 1)]
Timer_warn(t, line)  == [t EXCEPT !.warns = Append(@, line)]
Timer_note(t, line)  == [t EXCEPT !.notes = Append(@, line)]

\* {:?} of an Option<usize>
DebugOption(o) == IF o = None THEN "None" ELSE "Some(" \o ToString(o[1]) \o ")"

-----------------------------------------------------------------------------
(* get_address *)

\* BTreeMap::get
Tags_get(tags, key) == IF key \in DOMAIN tags THEN Some(tags[key]) ELSE None

\* get_address with a house number alone returned as it is
get_address_bare(tags, sidewalk, map) ==
    LET num == Tags_get(tags, "addr:housenumber")
        st  == Tags_get(tags, "addr:street")
    IN IF num # None /\ st # None THEN num[1] \o " " \o st[1]
       ELSE IF num = None /\ st # None THEN "??? " \o st[1]
       ELSE IF num # None THEN num[1]
       ELSE "??? " \o get_parent(map, sidewalk).name

get_address(tags, sidewalk, map) ==
    LET num == Tags_get(tags, "addr:housenumber")
        st  == Tags_get(tags, "addr:street")
    IN IF num # None /\ st # None THEN num[1] \o " " \o st[1]
       ELSE IF num = None /\ st # None THEN "??? " \o st[1]
       ELSE "??? " \o get_parent(map, sidewalk).name

-----------------------------------------------------------------------------
(* The driveway attempt both batch functions make for a connected footprint *)

buffer == 7      \* Distance::meters(7.0)
SpaceArea == 23  \* square metres per parking space

\* driveway with the buffer test made non-strict
driveway_nonstrict(sidewalk_pos, sidewalk_line, map) ==
    LET sidewalk_lane == sidewalk_pos.lane
        found == find_closest_lane(get_parent(map, sidewalk_lane), sidewalk_lane,
                                   {"Driving"}, map)
    IN IF found = None THEN None
       ELSE LET driving_lane == found[1]
                driving_pos  == equiv_pos(sidewalk_pos, driving_lane, 0, map)
            IN IF /\ driving_pos.dist_along >= buffer
                  /\ get_l(map, driving_lane).length - driving_pos.dist_along >= buffer
               THEN Some([driveway_line |-> <<sidewalk_line.pt1, sidewalk_line.pt2,
                                              Position_pt(driving_pos, map)>>,
                          driving_pos |-> driving_pos])
               ELSE None

\* Some([driveway_line, driving_pos]) when a driving lane of the sidewalk's road
\* takes the projected position more than `buffer` from both its ends
driveway(sidewalk_pos, sidewalk_line, map) ==
    LET sidewalk_lane == sidewalk_pos.lane
        found == find_closest_lane(get_parent(map, sidewalk_lane), sidewalk_lane,
                                   {"Driving"}, map)
    IN IF found = None THEN None
       ELSE LET driving_lane == found[1]
                driving_pos  == equiv_pos(sidewalk_pos, driving_lane, 0, map)
            IN IF /\ driving_pos.dist_along > buffer
                  /\ get_l(map, driving_lane).length - driving_pos.dist_along > buffer
               THEN Some([driveway_line |-> <<sidewalk_line.pt1, sidewalk_line.pt2,
                                              Position_pt(driving_pos, map)>>,
                          driving_pos |-> driving_pos])
               ELSE None

\* HashMap::get on the resolver's result
SidewalkPts_get(pts, center) == IF center \in DOMAIN pts THEN Some(pts[center]) ELSE None

-----------------------------------------------------------------------------
(* make_all_buildings *)

\* lines 16-25: the centre of every building, in key order, and the query set
BuildingCenters ==
    /\ fn = "buildings" /\ pc = "start"
    /\ timer' = Timer_start(timer, "convert buildings")
    /\ center_per' = [k \in 1..Len(input) |->
                        [id |-> input[k].id, center |-> Polygon_center(input[k].raw.polygon)]]
    /\ pc' = "resolve"
    /\ UNCHANGED <<fn, input, resolver, sidewalk_pts, i, results, run, prev, change>>
    /\ UNCHANGED not_batch

\* lines 28-37 / 128-137: one call of find_sidewalk_points for the whole query;
\* centres with no position in reach are absent from the result
FindSidewalkPoints ==
    /\ pc = "resolve"
    /\ LET query == {center_per[k].center : k \in 1..Len(center_per)}
       IN sidewalk_pts' = [c \in {q \in query : resolver[q] # None} |-> resolver[c][1]]
    /\ results' = << >>
    /\ i' = 0
    /\ pc' = "iter"
    /\ UNCHANGED <<fn, input, resolver, center_per, timer, run, prev, change>>
    /\ UNCHANGED not_batch

\* input[&orig_id]
Input_index(inp, orig_id) == (CHOOSE k \in 1..Len(inp) : inp[k].id = orig_id)

\* the Building of lines 53-101 for raw building b
NewBuilding(id, orig_id, b, sidewalk_pos, sidewalk_line, map) ==
    LET d == driveway(sidewalk_pos, sidewalk_line, map)
    IN [ id |-> id,
         polygon |-> b.polygon,
         address |-> get_address(b.osm_tags, sidewalk_pos.lane, map),
         name |-> Tags_get(b.osm_tags, "name"),
         osm_way_id |-> orig_id,
         front_path |-> [sidewalk |-> sidewalk_pos, line |-> sidewalk_line],
         amenities |-> b.amenities,
         parking |-> IF d = None THEN None
                     ELSE Some([public_garage_name |-> b.public_garage_name,
                                num_spots |-> b.num_parking_spots,
                                driveway_line |-> d[1].driveway_line,
                                driving_pos |-> d[1].driving_pos]) ]

\* ForfeitWarning never said
ForfeitWarning_never(bldg, b) == None

\* ForfeitWarning said only when there are spots to forfeit
ForfeitWarning_spots(bldg, b) ==
    IF bldg.parking = None /\ b.num_parking_spots > 0
    THEN Some(Msg("{} can't have a driveway. Forfeiting {} parking spots",
                  <<ToString(bldg.id), ToString(b.num_parking_spots)>>))
    ELSE None

\* lines 94-99: the warning a building kept without parking causes, if any
ForfeitWarning(bldg, b) ==
    IF bldg.parking = None
    THEN Some(Msg("{} can't have a driveway. Forfeiting {} parking spots",
                  <<ToString(bldg.id), ToString(b.num_parking_spots)>>))
    ELSE None

\* DiscardCount reporting the output count
DiscardCount_kept(inp, res) == Len(res)

\* the count of the summary note: input.len() - results.len()
DiscardCount(inp, res) == Len(inp) - Len(res)

\* NextID counting from one
NextID_one(res) == Len(res) + 1

\* NextID taken from the place in the input traversal
NextID_input(res) == i

\* the identifier the next pushed entity takes: BuildingID(results.len())
NextID(res) == Len(res)

\* line 40, the None arm: the centre has no sidewalk position, nothing is said
BuildingUnreachable ==
    /\ fn = "buildings" /\ pc = "iter" /\ i < Len(center_per)
    /\ SidewalkPts_get(sidewalk_pts, center_per[i + 1].center) = None
    /\ i' = i + 1
    /\ UNCHANGED <<fn, input, resolver, pc, center_per, sidewalk_pts, results, timer,
                   run, prev, change>>
    /\ UNCHANGED not_batch

\* lines 41-48: the sidewalk point is the centre itself
BuildingZeroLength ==
    /\ fn = "buildings" /\ pc = "iter" /\ i < Len(center_per)
    /\ LET e == center_per[i + 1]
           got == SidewalkPts_get(sidewalk_pts, e.center)
       IN /\ got # None
          /\ Position_pt(got[1], Map) = e.center
          /\ timer' = Timer_warn(timer,
                 Msg("Skipping building {} because front path has 0 length",
                     <<ToString(e.id)>>))
    /\ i' = i + 1
    /\ UNCHANGED <<fn, input, resolver, pc, center_per, sidewalk_pts, results,
                   run, prev, change>>
    /\ UNCHANGED not_batch

\* lines 49-101: the building is connected and pushed, with or without parking
BuildingPush ==
    /\ fn = "buildings" /\ pc = "iter" /\ i < Len(center_per)
    /\ LET e == center_per[i + 1]
           got == SidewalkPts_get(sidewalk_pts, e.center)
       IN /\ got # None
          /\ Position_pt(got[1], Map) # e.center
          /\ LET b == input[Input_index(input, e.id)].raw
                 sidewalk_line ==
                     trim_path(b.polygon, Line_new(e.center, Position_pt(got[1], Map)))
                 bldg == NewBuilding(NextID(results), e.id, b, got[1], sidewalk_line, Map)
                 warning == ForfeitWarning(bldg, b)
             IN /\ timer' = IF warning # None THEN Timer_warn(timer, warning[1]) ELSE timer
                /\ results' = Append(results, bldg)
    /\ i' = i + 1
    /\ UNCHANGED <<fn, input, resolver, pc, center_per, sidewalk_pts, run, prev, change>>
    /\ UNCHANGED not_batch

\* lines 105-111: the summary, once the loop is over
BuildingsFinish ==
    /\ fn = "buildings" /\ pc = "iter" /\ i = Len(center_per)
    /\ timer' = Timer_stop(
                  Timer_note(timer,
                    Msg("Discarded {} buildings that weren't close enough to a sidewalk",
                        <<ToString(DiscardCount(input, results))>>)),
                  "convert buildings")
    /\ pc' = "done"
    /\ UNCHANGED <<fn, input, resolver, center_per, sidewalk_pts, i, results,
                   run, prev, change>>
    /\ UNCHANGED not_batch

-----------------------------------------------------------------------------
(* make_all_parking_lots *)

\* lines 119-126: the centre of every lot, in Vec order, and the query set
LotCenters ==
    /\ fn = "lots" /\ pc = "start"
    /\ timer' = Timer_start(timer, "convert parking lots")
    /\ center_per' = [k \in 1..Len(input) |->
                        [id |-> input[k].id, center |-> Polygon_center(input[k].raw.polygon)]]
    /\ pc' = "resolve"
    /\ UNCHANGED <<fn, input, resolver, sidewalk_pts, i, results, run, prev, change>>
    /\ UNCHANGED not_batch

\* the ParkingLot of lines 177-191
NewParkingLot(id, orig, sidewalk_pos, sidewalk_line, d) ==
    [ id |-> id,
      polygon |-> orig.polygon,
      capacity |-> IF orig.capacity # None THEN orig.capacity[1]
                   ELSE orig.area \div SpaceArea,
      osm_id |-> orig.osm_id,
      driveway_line |-> d.driveway_line,
      driving_pos |-> d.driving_pos,
      sidewalk_line |-> sidewalk_line,
      sidewalk_pos |-> sidewalk_pos ]

\* line 141, the None arm
LotUnreachable ==
    /\ fn = "lots" /\ pc = "iter" /\ i < Len(center_per)
    /\ SidewalkPts_get(sidewalk_pts, center_per[i + 1].center) = None
    /\ i' = i + 1
    /\ UNCHANGED <<fn, input, resolver, pc, center_per, sidewalk_pts, results, timer,
                   run, prev, change>>
    /\ UNCHANGED not_batch

\* lines 142-149
LotZeroLength ==
    /\ fn = "lots" /\ pc = "iter" /\ i < Len(center_per)
    /\ LET lot_center == center_per[i + 1].center
           orig == input[i + 1].raw
           got == SidewalkPts_get(sidewalk_pts, lot_center)
       IN /\ got # None
          /\ Position_pt(got[1], Map) = lot_center
          /\ timer' = Timer_warn(timer,
                 Msg("Skipping parking lot {} because driveway has 0 length",
                     <<ToString(orig.osm_id)>>))
    /\ i' = i + 1
    /\ UNCHANGED <<fn, input, resolver, pc, center_per, sidewalk_pts, results,
                   run, prev, change>>
    /\ UNCHANGED not_batch

\* lines 150-191: the lot has a driveway and is pushed
LotPush ==
    /\ fn = "lots" /\ pc = "iter" /\ i < Len(center_per)
    /\ LET lot_center == center_per[i + 1].center
           orig == input[i + 1].raw
           got == SidewalkPts_get(sidewalk_pts, lot_center)
       IN /\ got # None
          /\ Position_pt(got[1], Map) # lot_center
          /\ LET sidewalk_line ==
                     trim_path(orig.polygon, Line_new(lot_center, Position_pt(got[1], Map)))
                 d == driveway(got[1], sidewalk_line, Map)
             IN /\ d # None
                /\ results' = Append(results,
                      NewParkingLot(NextID(results), orig, got[1], sidewalk_line, d[1]))
    /\ i' = i + 1
    /\ UNCHANGED <<fn, input, resolver, pc, center_per, sidewalk_pts, timer,
                   run, prev, change>>
    /\ UNCHANGED not_batch

\* lines 150-175, 192-198: no driveway, the lot is dropped with a warning
LotNoDriveway ==
    /\ fn = "lots" /\ pc = "iter" /\ i < Len(center_per)
    /\ LET lot_center == center_per[i + 1].center
           orig == input[i + 1].raw
           got == SidewalkPts_get(sidewalk_pts, lot_center)
       IN /\ got # None
          /\ Position_pt(got[1], Map) # lot_center
          /\ LET sidewalk_line ==
                     trim_path(orig.polygon, Line_new(lot_center, Position_pt(got[1], Map)))
             IN driveway(got[1], sidewalk_line, Map) = None
          /\ timer' = Timer_warn(timer,
                 Msg("Parking lot from OSM way {} can't have a driveway. Forfeiting {:?} parking spots",
                     <<ToString(orig.osm_id), DebugOption(orig.capacity)>>))
    /\ i' = i + 1
    /\ UNCHANGED <<fn, input, resolver, pc, center_per, sidewalk_pts, results,
                   run, prev, change>>
    /\ UNCHANGED not_batch

\* lines 202-208
LotsFinish ==
    /\ fn = "lots" /\ pc = "iter" /\ i = Len(center_per)
    /\ timer' = Timer_stop(
                  Timer_note(timer,
                    Msg("Discarded {} parking lots that weren't close enough to a sidewalk",
                        <<ToString(DiscardCount(input, results))>>)),
                  "convert parking lots")
    /\ pc' = "done"
    /\ UNCHANGED <<fn, input, resolver, center_per, sidewalk_pts, i, results,
                   run, prev, change>>
    /\ UNCHANGED not_batch

-----------------------------------------------------------------------------
(* A second run of the same batch function, on the same network snapshot   *)
(* and resolver answers: either on the same input, or with one footprint   *)
(* added somewhere in the traversal order. The caller hands it a new Timer.*)

InsertAt(s, k, e) == SubSeq(s, 1, k - 1) \o <<e>> \o SubSeq(s, k, Len(s))

\* the inputs with one more footprint: for a BTreeMap a new (odd) key, which
\* lands where the key order puts it; for a Vec any index
Insertions ==
    IF fn = "buildings"
    THEN { [at |-> Cardinality({j \in 1..Len(input) : input[j].id < key}) + 1,
            entry |-> [id |-> key, raw |-> b]] :
              key \in {2 * k - 1 : k \in 1..(MaxInput + 1)}, b \in RawBuildings }
    ELSE { [at |-> k, entry |-> [id |-> l.osm_id, raw |-> l]] :
              k \in 1..(Len(input) + 1), l \in RawParkingLots }

Rerun ==
    /\ pc = "done" /\ run = 1
    /\ prev' = Some([input |-> input, results |-> results,
                     warns |-> timer.warns, notes |-> timer.notes])
    /\ \/ change' = None /\ input' = input
       \/ \E c \in Insertions :
             /\ change' = Some(c)
             /\ input' = InsertAt(input, c.at, c.entry)
    /\ run' = 2
    /\ pc' = "start"
    /\ timer' = [warns |-> << >>, notes |-> << >>, stack |-> << >>]
    /\ UNCHANGED <<fn, resolver, center_per, sidewalk_pts, i, results>>
    /\ UNCHANGED not_batch

-----------------------------------------------------------------------------
(* The batch specification *)

EmptyTimer == [warns |-> << >>, notes |-> << >>, stack |-> << >>]

Resolvers == [Centers -> {None} \cup {Some(p) : p \in Positions}]

IdleTrim == t_poly = << >> /\ t_path = << >> /\ t_ret = None
IdleAddr == a_tags = << >> /\ a_lane = 0 /\ a_ret = None
IdleWarn == w = None /\ w_op = None /\ w_self = None /\ w_ret = None /\ stdout = << >>
IdleBatch ==
    /\ fn = "none" /\ input = << >> /\ resolver = << >> /\ pc = "idle"
    /\ center_per = << >> /\ sidewalk_pts = << >> /\ i = 0 /\ results = << >>
    /\ timer = EmptyTimer /\ run = 0 /\ prev = None /\ change = None

BatchInit ==
    /\ \/ fn = "buildings" /\ input \in BuildingInputs(BuildingKeys)
       \/ fn = "lots" /\ input \in LotInputs(MaxInput)
    /\ resolver \in Resolvers
    /\ pc = "start"
    /\ center_per = << >> /\ sidewalk_pts = << >> /\ i = 0 /\ results = << >>
    /\ timer = EmptyTimer
    /\ run = 1 /\ prev = None /\ change = None

Init == BatchInit /\ IdleTrim /\ IdleAddr /\ IdleWarn

BatchNext ==
    \/ BuildingCenters \/ LotCenters \/ FindSidewalkPoints
    \/ BuildingUnreachable \/ BuildingZeroLength \/ BuildingPush \/ BuildingsFinish
    \/ LotUnreachable \/ LotZeroLength \/ LotPush \/ LotNoDriveway \/ LotsFinish

Next == BatchNext

Spec == Init /\ [][Next]_vars

\* the batch run twice
NextRerun == BatchNext \/ Rerun
SpecRerun == Init /\ [][NextRerun]_vars

-----------------------------------------------------------------------------
(* trim_path on its own: a polygon ring and a path on the grid *)

Grid == {Pt(x, y) : x \in 0..MaxCoord, y \in 0..MaxCoord}

\* a ring of a single point has no window of two points
TrimPolygons == Polygons \cup {<<Pt(1, 1)>>}

TrimInit ==
    /\ t_poly \in TrimPolygons
    /\ t_path \in {Line_new(pq[1], pq[2]) : pq \in {xy \in Grid \X Grid : xy[1] # xy[2]}}
    /\ t_ret = None

TrimPath ==
    /\ t_ret = None /\ t_poly # << >>
    /\ t_ret' = Some(trim_path(t_poly, t_path))
    /\ UNCHANGED <<t_poly, t_path, batch_vars, addr_vars, warn_vars>>

InitTrim == IdleBatch /\ TrimInit /\ IdleAddr /\ IdleWarn
SpecTrim == InitTrim /\ [][TrimPath]_vars

-----------------------------------------------------------------------------
(* get_address on its own: a tag map and a sidewalk lane of the network *)

TagKeys == {"addr:housenumber", "addr:street", "name"}
TagValues == {"", "10", "Main St"}
TagMaps == UNION {[ks -> TagValues] : ks \in SUBSET TagKeys}
SidewalkLanes == {l \in 1..Len(Map.lanes) : Map.lanes[l].lane_type = "Sidewalk"}

AddrInit ==
    /\ a_tags \in TagMaps
    /\ a_lane \in SidewalkLanes
    /\ a_ret = None

GetAddress ==
    /\ a_ret = None /\ a_lane # 0
    /\ a_ret' = Some(get_address(a_tags, a_lane, Map))
    /\ UNCHANGED <<a_tags, a_lane, batch_vars, trim_vars, warn_vars>>

InitAddr == IdleBatch /\ IdleTrim /\ AddrInit /\ IdleWarn
SpecAddr == InitAddr /\ [][GetAddress]_vars

-----------------------------------------------------------------------------
(* Warn<T> *)

WarnValues == {0, 1}
WarnLines == {"a", "b"}
Contexts == {"ctx", ""}
Transforms == {"succ", "zero"}      \* the closures handed to map

RECURSIVE SeqsUpTo(_, _)
SeqsUpTo(S, n) ==
    IF n = 0 THEN {<< >>}
    ELSE LET rest == SeqsUpTo(S, n - 1)
         IN rest \cup {Append(q, x) : q \in rest, x \in S}

Apply(f, v) == IF f = "succ" THEN v + 1 ELSE 0

\* Warn::ok, Warn::warn, Warn::warnings
Warn_ok(value) == [value |-> value, warnings |-> << >>]
Warn_warn(value, warning) == [value |-> value, warnings |-> <<warning>>]
Warn_warnings(value, warnings) == [value |-> value, warnings |-> warnings]

\* unwrap printing the count line whether or not there are warnings
Warn_unwrap_out_always(self) ==
    <<ToString(Len(self.warnings)) \o " warnings:">> \o self.warnings

\* what unwrap prints: the count line, then every warning
Warn_unwrap_out(self) ==
    IF self.warnings # << >>
    THEN <<ToString(Len(self.warnings)) \o " warnings:">> \o self.warnings
    ELSE << >>

\* what expect prints
Warn_expect_out(self, context) ==
    IF self.warnings # << >>
    THEN <<ToString(Len(self.warnings)) \o " warnings (" \o context \o "):">> \o self.warnings
    ELSE << >>

\* the Timer after get: one timer.warn per warning, in order
RECURSIVE Warn_get_timer(_, _)
Warn_get_timer(t, warnings) ==
    IF warnings = << >> THEN t
    ELSE Warn_get_timer(Timer_warn(t, Head(warnings)), Tail(warnings))

\* the Timer after with_context
RECURSIVE Warn_with_context_timer(_, _, _)
Warn_with_context_timer(t, warnings, context) ==
    IF warnings = << >> THEN t
    ELSE Warn_with_context_timer(Timer_warn(t, context \o ": " \o Head(warnings)),
                                 Tail(warnings), context)

Warn_map(self, f) == [value |-> Apply(f, self.value), warnings |-> self.warnings]

Op(name, arg) == Some([name |-> name, arg |-> arg])

NewOk ==
    /\ w = None /\ w_op = None
    /\ \E v \in WarnValues : w' = Some(Warn_ok(v))
    /\ w_op' = Op("ok", "")
    /\ UNCHANGED <<w_self, w_ret, stdout, batch_vars, trim_vars, addr_vars>>

NewWarn ==
    /\ w = None /\ w_op = None
    /\ \E v \in WarnValues, m \in WarnLines : w' = Some(Warn_warn(v, m))
    /\ w_op' = Op("warn", "")
    /\ UNCHANGED <<w_self, w_ret, stdout, batch_vars, trim_vars, addr_vars>>

NewWarnings ==
    /\ w = None /\ w_op = None
    /\ \E v \in WarnValues, ms \in SeqsUpTo(WarnLines, MaxWarnings) :
          w' = Some(Warn_warnings(v, ms))
    /\ w_op' = Op("warnings", "")
    /\ UNCHANGED <<w_self, w_ret, stdout, batch_vars, trim_vars, addr_vars>>

Unwrap ==
    /\ w # None
    /\ stdout' = stdout \o Warn_unwrap_out(w[1])
    /\ w_ret' = Some(w[1].value)
    /\ w_self' = w /\ w' = None /\ w_op' = Op("unwrap", "")
    /\ UNCHANGED <<batch_vars, trim_vars, addr_vars>>

Expect ==
    /\ w # None
    /\ \E context \in Contexts :
          /\ stdout' = stdout \o Warn_expect_out(w[1], context)
          /\ w_op' = Op("expect", context)
    /\ w_ret' = Some(w[1].value)
    /\ w_self' = w /\ w' = None
    /\ UNCHANGED <<batch_vars, trim_vars, addr_vars>>

Get ==
    /\ w # None
    /\ timer' = Warn_get_timer(timer, w[1].warnings)
    /\ w_ret' = Some(w[1].value)
    /\ w_self' = w /\ w' = None /\ w_op' = Op("get", "")
    /\ UNCHANGED <<fn, input, resolver, pc, center_per, sidewalk_pts, i, results,
                   run, prev, change, stdout, trim_vars, addr_vars>>

WithContext ==
    /\ w # None
    /\ \E context \in Contexts :
          /\ timer' = Warn_with_context_timer(timer, w[1].warnings, context)
          /\ w_op' = Op("with_context", context)
    /\ w_ret' = Some(w[1].value)
    /\ w_self' = w /\ w' = None
    /\ UNCHANGED <<fn, input, resolver, pc, center_per, sidewalk_pts, i, results,
                   run, prev, change, stdout, trim_vars, addr_vars>>

\* map is applied to a freshly built Warn
MapValue ==
    /\ w # None /\ w_op[1].name \in {"ok", "warn", "warnings"}
    /\ \E f \in Transforms :
          /\ w' = Some(Warn_map(w[1], f))
          /\ w_op' = Op("map", f)
    /\ w_self' = w
    /\ UNCHANGED <<w_ret, stdout, batch_vars, trim_vars, addr_vars>>

WarnNext ==
    \/ NewOk \/ NewWarn \/ NewWarnings
    \/ Unwrap \/ Expect \/ Get \/ WithContext \/ MapValue

InitWarn == IdleBatch /\ IdleTrim /\ IdleAddr /\ IdleWarn
SpecWarn == InitWarn /\ [][WarnNext]_vars

-----------------------------------------------------------------------------
(* What becomes of the k-th input footprint, read off the resolver's answer *)
(* and the network, not off the run.                                        *)

CenterOf(k) == Polygon_center(input[k].raw.polygon)
Answer(k) == resolver[CenterOf(k)]
IsUnreachable(k) == Answer(k) = None
IsDegenerate(k) == Answer(k) # None /\ Position_pt(Answer(k)[1], Map) = CenterOf(k)
IsConnected(k) == Answer(k) # None /\ Position_pt(Answer(k)[1], Map) # CenterOf(k)

DrivingLanesOf(l) ==
    {d \in 1..Len(Map.lanes) :
        Map.lanes[d].lane_type = "Driving" /\ Map.lanes[d].parent = Map.lanes[l].parent}

\* a driving lane of the sidewalk's road takes the projection more than 7 m from both ends
HasAccess(k) ==
    /\ IsConnected(k)
    /\ \E d \in DrivingLanesOf(Answer(k)[1].lane) :
          LET p == equiv_pos(Answer(k)[1], d, 0, Map)
          IN p.dist_along > 7 /\ Map.lanes[d].length - p.dist_along > 7

NoAccess(k) == IsConnected(k) /\ ~HasAccess(k)

\* the footprint ends up in the output
Placed(k) == IF fn = "buildings" THEN IsConnected(k) ELSE HasAccess(k)

\* the footprint causes a per-item warning
Warned(k) == IsDegenerate(k) \/ NoAccess(k)

\* the indices up to n of the footprints placed in the output, in increasing order
RECURSIVE PlacedSeq(_)
PlacedSeq(n) ==
    IF n = 0 THEN << >>
    ELSE IF Placed(n) THEN Append(PlacedSeq(n - 1), n) ELSE PlacedSeq(n - 1)

\* the indices up to n of the footprints that cause a warning
RECURSIVE WarnedSeq(_)
WarnedSeq(n) ==
    IF n = 0 THEN << >>
    ELSE IF Warned(n) THEN Append(WarnedSeq(n - 1), n) ELSE WarnedSeq(n - 1)

SourceId(x) == IF fn = "buildings" THEN x.osm_way_id ELSE x.osm_id
Connector(x) == IF fn = "buildings" THEN x.front_path.line ELSE x.sidewalk_line
SidewalkOf(x) == IF fn = "buildings" THEN x.front_path.sidewalk ELSE x.sidewalk_pos
Range(q) == {q[k] : k \in 1..Len(q)}

-----------------------------------------------------------------------------
\* C1: the entity at output index j (from 0) has identifier j; the output is the
\* input traversal order restricted to the footprints that were synthesized, so a
\* skipped or discarded footprint consumes no identifier.
C1_Identifiers ==
    LET ps == PlacedSeq(i)
    IN /\ Len(results) = Len(ps)
       /\ \A j \in 1..Len(results) :
             /\ results[j].id = j - 1
             /\ j <= Len(ps) =>
                   /\ SourceId(results[j]) = input[ps[j]].id
                   /\ results[j].polygon = input[ps[j]].raw.polygon

\* a finished batch whose first footprint was left out and whose second took id 0
C1_Witness ==
    /\ pc = "done" /\ Len(input) = 2
    /\ ~Placed(1) /\ Placed(2)
    /\ Len(results) = 1 /\ results[1].id = 0 /\ SourceId(results[1]) = input[2].id

-----------------------------------------------------------------------------
\* the name a per-item warning gives footprint k: a kept building by its new
\* BuildingID, every other footprint by its original identifier
NameOf(k) ==
    IF fn = "buildings" /\ IsConnected(k)
    THEN ToString(Len(PlacedSeq(k - 1)))
    ELSE ToString(input[k].id)

\* C2 (as amended): every footprint discarded as degenerate or (a lot) for want of
\* vehicle access, and every building kept without vehicle access, causes exactly
\* one timer.warn naming it; an unreachable footprint and a footprint synthesized
\* with nothing lost cause none.
C2_Diagnostics ==
    LET ws == WarnedSeq(i)
    IN /\ Len(timer.warns) = Len(ws)
       /\ \A j \in 1..Len(timer.warns) :
             j <= Len(ws) => timer.warns[j].args[1] = NameOf(ws[j])

\* C2 as claimed: unreachable footprints too cause one warning each
C2_Original ==
    Len(timer.warns) = Cardinality({k \in 1..i : IsUnreachable(k) \/ Warned(k)})

\* an unreachable footprint passed in silence, then a warned one
C2_Witness ==
    /\ pc = "done" /\ Len(input) = 2
    /\ IsUnreachable(1) /\ Warned(2)
    /\ Len(timer.warns) = 1 /\ timer.warns[1].args[1] = NameOf(2)

-----------------------------------------------------------------------------
\* C3 (as amended): one summary note per batch, after the last per-item step; its
\* count is input count - output count, the number of footprints left out: the
\* unreachable and zero-length ones and, for parking lots, also those dropped for
\* want of vehicle access.
C3_Summary ==
    /\ pc # "done" => timer.notes = << >>
    /\ pc = "done" =>
          /\ i = Len(input)
          /\ Len(timer.notes) = 1
          /\ timer.notes[1].args = <<ToString(Len(input) - Len(results))>>
          /\ Len(input) - Len(results) =
                Cardinality({k \in 1..Len(input) :
                    \/ IsUnreachable(k) \/ IsDegenerate(k)
                    \/ (fn = "lots" /\ NoAccess(k))})

\* C3 as claimed: the count is the number discarded as unreachable or zero-length
C3_Original ==
    pc = "done" =>
        /\ Len(timer.notes) = 1
        /\ timer.notes[1].args = <<ToString(Len(input) - Len(results))>>
        /\ Len(input) - Len(results) =
              Cardinality({k \in 1..Len(input) : IsUnreachable(k) \/ IsDegenerate(k)})

\* a finished lot batch that dropped one lot for want of a driveway and one for distance
C3_Witness ==
    /\ pc = "done" /\ fn = "lots" /\ Len(input) = 2
    /\ NoAccess(1) /\ IsUnreachable(2)
    /\ timer.notes = <<Msg("Discarded {} parking lots that weren't close enough to a sidewalk",
                           <<"2">>)>>

-----------------------------------------------------------------------------
\* C4: a produced entity carries vehicle-access data only with a driving lane of
\* its sidewalk's road whose projected position is strictly more than 7 m from both
\* lane ends; a building whose road has no driving lane, or whose projection is
\* within 7 m of an end, carries none; every produced lot carries it.
C4_VehicleAccess ==
    \A j \in 1..Len(results) :
        LET x   == results[j]
            sp  == SidewalkOf(x)
            has == fn = "lots" \/ x.parking # None
            dp  == IF fn = "lots" THEN x.driving_pos ELSE x.parking[1].driving_pos
        IN /\ has =>
                /\ Map.lanes[dp.lane].lane_type = "Driving"
                /\ Map.lanes[dp.lane].parent = Map.lanes[sp.lane].parent
                /\ dp.dist_along > 7
                /\ Map.lanes[dp.lane].length - dp.dist_along > 7
           /\ ~has =>
                \A d \in DrivingLanesOf(sp.lane) :
                    LET p == equiv_pos(sp, d, 0, Map)
                    IN p.dist_along <= 7 \/ Map.lanes[d].length - p.dist_along <= 7

\* two buildings on Back Rd: one projected 7 m from the lane's end and left without
\* parking, one projected 8 m from both ends and given parking
C4_Witness ==
    /\ fn = "buildings" /\ pc = "done" /\ Len(results) = 2
    /\ \E a, b \in 1..2 :
          /\ results[a].parking = None
          /\ DrivingLanesOf(results[a].front_path.sidewalk.lane) # {}
          /\ results[b].parking # None
          /\ results[b].parking[1].driving_pos.dist_along = 8
          /\ Map.lanes[results[b].parking[1].driving_pos.lane].length = 16

-----------------------------------------------------------------------------
\* C5: a connected footprint with no vehicle access: a building is in the output
\* with parking absent and its front path whole, and a warning names it and its
\* parking-spot count; a parking lot is not in the output and takes no identifier,
\* and a warning names its source identifier and declared capacity.
C5_NoAccess ==
    \A k \in 1..i :
        NoAccess(k) =>
            IF fn = "buildings"
            THEN \E j \in 1..Len(results) :
                    /\ results[j].osm_way_id = input[k].id
                    /\ results[j].parking = None
                    /\ results[j].front_path.sidewalk = Answer(k)[1]
                    /\ results[j].front_path.line.pt2 = Position_pt(Answer(k)[1], Map)
                    /\ results[j].front_path.line.pt1 # results[j].front_path.line.pt2
                    /\ Msg("{} can't have a driveway. Forfeiting {} parking spots",
                           <<ToString(results[j].id),
                             ToString(input[k].raw.num_parking_spots)>>)
                          \in Range(timer.warns)
            ELSE /\ \A j \in 1..Len(results) : results[j].osm_id # input[k].id
                 /\ \A j \in 1..Len(results) : results[j].id = j - 1
                 /\ Len(results) = Len(PlacedSeq(i))
                 /\ Msg("Parking lot from OSM way {} can't have a driveway. Forfeiting {:?} parking spots",
                        <<ToString(input[k].id), DebugOption(input[k].raw.capacity)>>)
                       \in Range(timer.warns)

\* a lot batch that dropped its first lot for want of a driveway and gave the
\* second lot identifier 0
C5_Witness ==
    /\ fn = "lots" /\ pc = "done" /\ Len(input) = 2
    /\ NoAccess(1) /\ HasAccess(2)
    /\ Len(results) = 1 /\ results[1].id = 0 /\ results[1].osm_id = input[2].id

-----------------------------------------------------------------------------
\* C6: an entity is in the output only if the resolver answered for its centre
\* with a point other than the centre, and its connector line has positive length;
\* a footprint whose centre is its sidewalk point is not in the output, and every
\* footprint left out raises processed-minus-output by exactly one.
C6_Connector ==
    /\ \A j \in 1..Len(results) :
          /\ \E k \in 1..i :
                /\ input[k].id = SourceId(results[j])
                /\ input[k].raw.polygon = results[j].polygon
                /\ IsConnected(k)
          /\ Line_length_sq(Connector(results[j])) > 0
    /\ \A k \in 1..i :
          IsDegenerate(k) =>
              \A j \in 1..Len(results) :
                  ~(SourceId(results[j]) = input[k].id
                    /\ results[j].polygon = input[k].raw.polygon)
    /\ i - Len(results) = Cardinality({k \in 1..i : ~Placed(k)})

\* a batch that dropped a zero-length footprint and produced an entity whose
\* connector starts on the polygon's border, not at the centre
C6_Witness ==
    /\ pc = "done" /\ Len(input) = 2 /\ Len(results) = 1
    /\ \E k \in 1..2 : IsDegenerate(k)
    /\ \E k \in 1..2 : Placed(k) /\ Connector(results[1]).pt1 # CenterOf(k)

-----------------------------------------------------------------------------
\* C7: a second run on the same input, network and resolver answers yields the
\* same entities, identifiers and diagnostics; with one footprint added that is not
\* placed in the output, every produced entity is unchanged; with one added that is
\* placed, the entities before it in input order are unchanged and each entity
\* after it is unchanged but for its identifier, which is one more.
C7_Rerun ==
    (run = 2 /\ pc = "done") =>
        LET p == prev[1]
        IN IF change = None
           THEN /\ results = p.results
                /\ timer.warns = p.warns
                /\ timer.notes = p.notes
           ELSE LET at == change[1].at
                    m  == Len(PlacedSeq(at - 1))
                IN IF ~Placed(at)
                   THEN results = p.results
                   ELSE /\ Len(results) = Len(p.results) + 1
                        /\ SourceId(results[m + 1]) = change[1].entry.id
                        /\ \A j \in 1..Len(p.results) :
                              IF j <= m
                              THEN results[j] = p.results[j]
                              ELSE results[j + 1] = [p.results[j] EXCEPT !.id = @ + 1]

\* a re-run with a footprint added in front that is placed: the entity that had
\* identifier 0 now has identifier 1
C7_Witness ==
    /\ run = 2 /\ pc = "done" /\ change # None
    /\ change[1].at = 1 /\ Placed(1)
    /\ Len(prev[1].results) >= 1 /\ prev[1].results[1].id = 0
    /\ Len(results) >= 2 /\ results[2].id = 1
    /\ SourceId(results[2]) = SourceId(prev[1].results[1])

-----------------------------------------------------------------------------
\* C8: every extraction returns the wrapped value; unwrap and expect print
\* nothing without warnings and otherwise a count line followed by the warnings,
\* each once, in insertion order, duplicates kept; get hands the same sequence to
\* the Timer, with_context hands each prefixed with "<context>: "; map(f) gives a
\* Warn holding f(value) and the same warnings.
C8_Warn ==
    w_op # None =>
        LET op == w_op[1]
            self == w_self[1]
        IN CASE op.name \in {"unwrap", "expect"} ->
                    /\ w_ret = Some(self.value)
                    /\ timer.warns = << >>
                    /\ IF self.warnings = << >> THEN stdout = << >>
                       ELSE /\ Len(stdout) = Len(self.warnings) + 1
                            /\ Tail(stdout) = self.warnings
             [] op.name = "get" ->
                    /\ w_ret = Some(self.value)
                    /\ stdout = << >>
                    /\ timer.warns = self.warnings
             [] op.name = "with_context" ->
                    /\ w_ret = Some(self.value)
                    /\ stdout = << >>
                    /\ Len(timer.warns) = Len(self.warnings)
                    /\ \A k \in 1..Len(self.warnings) :
                          timer.warns[k] = op.arg \o ": " \o self.warnings[k]
             [] op.name = "map" ->
                    w = Some([value |-> Apply(op.arg, self.value),
                              warnings |-> self.warnings])
             [] OTHER -> TRUE

\* unwrap of a Warn holding the same warning twice: both lines printed
C8_Witness ==
    /\ w_op # None /\ w_op[1].name = "unwrap"
    /\ w_self[1].warnings = <<"a", "a">>
    /\ stdout = <<"2 warnings:", "a", "a">>
    /\ w_ret = Some(1)

-----------------------------------------------------------------------------
\* C9: get_address returns a non-empty string for every tag map: "<num> <street>"
\* with both tags, "??? <street>" with the street alone, "??? <road name>" with
\* neither, and a non-empty string starting with "??? " with the house number alone.
C9_Address ==
    a_ret # None =>
        LET r == a_ret[1]
            hasNum == "addr:housenumber" \in DOMAIN a_tags
            hasSt  == "addr:street" \in DOMAIN a_tags
            road   == Map.roads[Map.lanes[a_lane].parent].name
        IN /\ r # "" /\ Len(r) > 0
           /\ (hasNum /\ hasSt) => r = a_tags["addr:housenumber"] \o " " \o a_tags["addr:street"]
           /\ (~hasNum /\ hasSt) => r = "??? " \o a_tags["addr:street"]
           /\ (~hasNum /\ ~hasSt) => r = "??? " \o road
           /\ (hasNum /\ ~hasSt) => Len(r) >= 4 /\ SubSeq(r, 1, 4) = "??? "

\* a house number without a street, on a road with no name: the placeholder alone
C9_Witness ==
    /\ a_ret = Some("??? ")
    /\ "addr:housenumber" \in DOMAIN a_tags
    /\ "addr:street" \notin DOMAIN a_tags

-----------------------------------------------------------------------------
\* the hit of the k-th boundary edge with the path
EdgeHit(k) == Line_intersection(Line_new(t_poly[k], t_poly[k + 1]), t_path)
Edges == 1..(Len(t_poly) - 1)
MinOf(S) == CHOOSE k \in S : \A m \in S : k <= m

\* C10 (as amended): trim_path returns the segment from the hit of the first
\* boundary edge that meets the path at a point other than path.pt2 to path.pt2;
\* with no such edge it returns the path unchanged; the result always ends at
\* path.pt2.
C10_Trim ==
    t_ret # None =>
        LET good == {k \in Edges : EdgeHit(k) # None /\ EdgeHit(k)[1] # t_path.pt2}
        IN /\ t_ret[1].pt2 = t_path.pt2
           /\ IF good = {} THEN t_ret[1] = t_path
              ELSE t_ret[1] = [pt1 |-> EdgeHit(MinOf(good))[1], pt2 |-> t_path.pt2]

\* C10 as claimed: the first edge that intersects the path decides the result
C10_Original ==
    t_ret # None =>
        LET any == {k \in Edges : EdgeHit(k) # None}
        IN /\ t_ret[1].pt2 = t_path.pt2
           /\ IF any = {} THEN t_ret[1] = t_path
              ELSE t_ret[1] = [pt1 |-> EdgeHit(MinOf(any))[1], pt2 |-> t_path.pt2]

\* the path ends on one edge and crosses a later one: the later edge's hit is used
C10_Witness ==
    /\ t_ret # None
    /\ \E k1, k2 \in Edges :
          /\ k1 < k2
          /\ EdgeHit(k1) = Some(t_path.pt2)
          /\ EdgeHit(k2) # None /\ EdgeHit(k2)[1] # t_path.pt2
          /\ t_ret[1] = [pt1 |-> EdgeHit(k2)[1], pt2 |-> t_path.pt2]

====
